---- MODULE Spec2Model ----
(***************************************************************************)
(* fit-connect-rs: one run of the command line tool.                       *)
(*                                                                         *)
(* The run is sequential.  Its state is the parsed arguments, the          *)
(* environment, the two OAuth config files, the program counter of the     *)
(* entry point, the locals that survive between two statements of the      *)
(* entry point, what was printed, and the exit status.  The calls into     *)
(* the strava_client_rs and withings_rs libraries are recorded, in order,  *)
(* in `calls`; their outcomes are inputs the library (the network) picks.  *)
(*                                                                         *)
(* Two entry points exist in the repository: cli.rs::cli (clap derive,     *)
(* subcommands withings and strava) and main.rs::process_cli (subcommand   *)
(* withings only, forwarding through main.rs::sync_strava).                *)
(***************************************************************************)
EXTENDS Integers, Sequences, FiniteSets

VARIABLES
    args,           \* the parsed command line (Cli / ArgMatches); never changes
    env,            \* which credential environment variables are set
    sfile,          \* the Strava config file exists
    wfile,          \* the Withings config file exists
    pc,             \* position of the entry point
    logger,         \* simple_logger has been initialised
    calls,          \* library calls made so far, oldest first
    acqs,           \* access-token acquisitions made so far, oldest first
    out,            \* lines printed to standard output
    errs,           \* lines printed to standard error
    exit_status,    \* -1 while running, then the process exit status
    measurements,   \* local of get_weight_by_date: the response being read
    weightRes,      \* Result<f64, WeightError> of get_weight_by_date
    weight_in_kgs,  \* local of the entry point: Option<String>
    syncRes         \* Result of the forwarding call of the entry point

vars == <<args, env, sfile, wfile, pc, logger, calls, acqs, out, errs,
          exit_status, measurements, weightRes, weight_in_kgs, syncRes>>

----------------------------------------------------------------------------
(* Bounds of the model *)

\* longest list of measurement groups in a response
MaxGroups == 2
\* longest list of measures in one group
MaxMeasures == 2

(* Inputs *)

\* athlete ids the athlete endpoint may return
AthleteIds == {7, 42}
\* raw values (grams) a first measure may carry
Grams == {950, 72000, 72345}
\* day offsets given with --last-weight
Days == {1, 7}
\* HTTP statuses the weight update may come back with
Statuses == {200, 400}
\* the clock: seconds since the epoch at the time of the run
Now == 1000000
SecondsPerDay == 86400

StatsOptions == {"All", "YtdRun", "YtdRunMiles", "YtdRide", "YtdSwim",
                 "RecentRun", "RecentRunMiles", "RecentSwim", "RecentRide"}

----------------------------------------------------------------------------
(* Integer -> decimal text, as i64::to_string / f64::to_string produce it *)

Digit(d) == <<"0", "1", "2", "3", "4", "5", "6", "7", "8", "9">>[d + 1]

RECURSIVE NatToString(_)
NatToString(n) ==
    IF n < 10 THEN <<Digit(n)>>
    ELSE NatToString(n \div 10) \o <<Digit(n % 10)>>

\* the kilograms computed by integer division: the grams below a kilogram
\* are lost
KgToString_whole(grams) == NatToString(grams \div 1000)

\* (weight / 1000.0).to_string() for a whole number of grams: the shortest
\* decimal that reads back as the same f64, which for grams / 1000 is the
\* exact quotient without trailing zeros and without a bare decimal point.
KgToString(grams) ==
    LET whole == NatToString(grams \div 1000)
        f     == grams % 1000
        d3    == <<Digit(f \div 100), Digit((f \div 10) % 10), Digit(f % 10)>>
        frac  == IF f = 0 THEN <<>>
                 ELSE IF f % 100 = 0 THEN SubSeq(d3, 1, 1)
                 ELSE IF f % 10 = 0 THEN SubSeq(d3, 1, 2)
                 ELSE d3
    IN  IF frac = <<>> THEN whole ELSE whole \o <<".">> \o frac

\* StatusCode::to_string(): the code and its canonical reason
StatusToString(status) ==
    NatToString(status) \o
        (IF status = 200 THEN <<" ", "OK">> ELSE <<" ", "Bad Request">>)

\* get_day_before_timestamp
get_day_before_timestamp(day) == NatToString(Now - day * SecondsPerDay)

----------------------------------------------------------------------------
(* Values *)

None == [some |-> FALSE, v |-> <<>>]
Some(x) == [some |-> TRUE, v |-> x]

\* Result values; an error is its chain of messages, outermost first
Ok(x, w) == [ok |-> TRUE, val |-> x, err |-> <<>>, w |-> w]
Err(e, w) == [ok |-> FALSE, val |-> <<>>, err |-> e, w |-> w]
\* Context::wrap_err
wrap_err(r, msg) == IF r.ok THEN r ELSE Err(<<msg>> \o r.err, r.w)

\* one library call in `calls`
Call(op, tok, arg, ok, status) ==
    [op |-> op, tok |-> tok, arg |-> arg, ok |-> ok, status |-> status]

\* the part of the state the library wrappers read and change
World == [calls |-> calls, acqs |-> acqs, sfile |-> sfile, wfile |-> wfile,
          out |-> out]


----------------------------------------------------------------------------
(* Outcomes the libraries may produce *)

\* an OAuth call: fails, or yields a token; an interactive authorization
\* that succeeds may leave the config file behind
TokenOutcomes ==
    {[ok |-> FALSE, wrote |-> FALSE]} \cup [ok : {TRUE}, wrote : BOOLEAN]

\* the access token of an OAuth call: the servers hand out a fresh token
\* each time, here the number of the acquisition that asked for it
Token(w) == <<"token", Len(w.acqs) + 1>>
NoToken == <<>>

\* athlete::get_athlete
AthleteOutcomes ==
    {[ok |-> FALSE, id |-> 0]} \cup [ok : {TRUE}, id : AthleteIds]

\* athlete::get_athlete_stats
StatsOutcomes == [ok : BOOLEAN]

\* athlete::update_athlete_weight: a transport error, or a response with
\* some HTTP status
UpdateOutcomes ==
    {[ok |-> FALSE, status |-> 0]} \cup [ok : {TRUE}, status : Statuses]

\* the value of measure j of group i in a response whose first measure is g
MeasureValue(g, i, j) == g + 1000 * (i - 1) + 5 * (j - 1)

\* lists of at most MaxGroups groups, each of at most MaxMeasures measures
Shapes == UNION {[1..n -> 0..MaxMeasures] : n \in 0..MaxGroups}
MeasureGroups ==
    {[i \in 1..Len(s) |-> [j \in 1..s[i] |-> MeasureValue(g, i, j)]] :
        s \in Shapes, g \in Grams}

\* measure::get_measurements
MeasureOutcomes ==
    {[ok |-> FALSE, measuregrps |-> <<>>]} \cup
    [ok : {TRUE}, measuregrps : MeasureGroups]

----------------------------------------------------------------------------
(* modules/strava.rs *)

\* a record of one access-token acquisition: which function, whether it got
\* past the credential lookup, what the existence test of the config file
\* gave, the library calls it made (calls[from+1 .. to]) and its result
Acq(fn, checked, file, from, r) ==
    [fn |-> fn, checked |-> checked, file |-> file, from |-> from,
     to |-> Len(r.w.calls), ok |-> r.ok, err |-> r.err]

Record(fn, checked, file, w, r) ==
    [r EXCEPT !.w.acqs = Append(r.w.acqs, Acq(fn, checked, file, Len(w.calls), r))]

LibCall(w, c) == [w EXCEPT !.calls = Append(w.calls, c)]

auth_strava(w, o) ==
    IF ~env.STRAVA_CLIENT_ID THEN
        Record("auth_strava", FALSE, FALSE, w,
               Err(<<"Configuration error: Missing client ID">>, w))
    ELSE IF ~env.STRAVA_CLIENT_SECRET THEN
        Record("auth_strava", FALSE, FALSE, w,
               Err(<<"Configuration error: Missing client secret">>, w))
    ELSE
        LET w1 == [LibCall(w, Call("strava_get_authorization", NoToken, <<>>, o.ok, 0))
                      EXCEPT !.sfile = w.sfile \/ (o.ok /\ o.wrote)]
        IN  Record("auth_strava", FALSE, FALSE, w,
                   IF o.ok THEN Ok(Token(w), w1)
                   ELSE Err(<<"Authentication failed">>, w1))

\* strava_get_access_token without the lookup of the client secret
strava_get_access_token_no_secret(w, o) ==
    IF ~env.STRAVA_CLIENT_ID THEN
        Record("strava_get_access_token", FALSE, FALSE, w,
               Err(<<"Configuration error: Missing client ID">>, w))
    ELSE
        LET w1 == IF w.sfile
                  THEN LibCall(w, Call("strava_get_refresh_token", NoToken, <<>>, o.ok, 0))
                  ELSE [LibCall(w, Call("strava_get_authorization", NoToken, <<>>, o.ok, 0))
                           EXCEPT !.sfile = o.ok /\ o.wrote]
        IN  Record("strava_get_access_token", TRUE, w.sfile, w,
                   IF o.ok THEN Ok(Token(w), w1)
                   ELSE Err(<<"Authentication failed">>, w1))

strava_get_access_token(w, o) ==
    IF ~env.STRAVA_CLIENT_ID THEN
        Record("strava_get_access_token", FALSE, FALSE, w,
               Err(<<"Configuration error: Missing client ID">>, w))
    ELSE IF ~env.STRAVA_CLIENT_SECRET THEN
        Record("strava_get_access_token", FALSE, FALSE, w,
               Err(<<"Configuration error: Missing client secret">>, w))
    ELSE
        LET w1 == IF w.sfile
                  THEN LibCall(w, Call("strava_get_refresh_token", NoToken, <<>>, o.ok, 0))
                  ELSE [LibCall(w, Call("strava_get_authorization", NoToken, <<>>, o.ok, 0))
                           EXCEPT !.sfile = o.ok /\ o.wrote]
        IN  Record("strava_get_access_token", TRUE, w.sfile, w,
                   IF o.ok THEN Ok(Token(w), w1)
                   ELSE Err(<<"Authentication failed">>, w1))

obtain_access_token(w, o) ==
    wrap_err(strava_get_access_token(w, o), "Failed to get access token")

\* a call with the athlete id its reply carries (0 when it failed)
Reply(c, id) ==
    [op |-> c.op, tok |-> c.tok, arg |-> c.arg, ok |-> c.ok,
     status |-> c.status, id |-> id]

get_authenticated_athlete(w, oTok, oAth) ==
    LET t == wrap_err(obtain_access_token(w, oTok), "Failed to obtain access token")
    IN  IF ~t.ok THEN t
        ELSE LET w1 == LibCall(t.w, Reply(Call("strava_get_athlete", t.val, <<>>,
                                               oAth.ok, 0), oAth.id))
             IN  IF oAth.ok THEN Ok(oAth.id, w1)
                 ELSE Err(<<"API error: Failed to get athlete information">>, w1)

\* get_athlete_stats asking for the stats a second time when the first
\* request fails
get_athlete_stats_again(w, oTok1, oTok2, oAth, oStats) ==
    LET t == wrap_err(obtain_access_token(w, oTok1), "Failed to obtain access token")
    IN  IF ~t.ok THEN t
        ELSE LET a == wrap_err(get_authenticated_athlete(t.w, oTok2, oAth),
                               "Failed to get athlete ID")
             IN  IF ~a.ok THEN a
                 ELSE LET c  == Call("strava_get_athlete_stats", t.val,
                                     NatToString(a.val), oStats.ok, 0)
                          w1 == LibCall(a.w, c)
                      IN  IF oStats.ok THEN Ok("stats", w1)
                          ELSE Err(<<"API error: Failed to get athlete stats">>,
                                   LibCall(w1, c))

\* get_athlete_stats going on to the stats request when the athlete lookup
\* has failed, with the id of no athlete
get_athlete_stats_unchecked(w, oTok1, oTok2, oAth, oStats) ==
    LET t == wrap_err(obtain_access_token(w, oTok1), "Failed to obtain access token")
    IN  IF ~t.ok THEN t
        ELSE LET a  == get_authenticated_athlete(t.w, oTok2, oAth)
                 w1 == LibCall(a.w, Call("strava_get_athlete_stats", t.val,
                                         NatToString(IF a.ok THEN a.val ELSE 0),
                                         oStats.ok, 0))
             IN  IF oStats.ok THEN Ok("stats", w1)
                 ELSE Err(<<"API error: Failed to get athlete stats">>, w1)

get_athlete_stats(w, oTok1, oTok2, oAth, oStats) ==
    LET t == wrap_err(obtain_access_token(w, oTok1), "Failed to obtain access token")
    IN  IF ~t.ok THEN t
        ELSE LET a == wrap_err(get_authenticated_athlete(t.w, oTok2, oAth),
                               "Failed to get athlete ID")
             IN  IF ~a.ok THEN a
                 ELSE LET w1 == LibCall(a.w, Call("strava_get_athlete_stats", t.val,
                                                  NatToString(a.val), oStats.ok, 0))
                      IN  IF oStats.ok THEN Ok("stats", w1)
                          ELSE Err(<<"API error: Failed to get athlete stats">>, w1)

\* update_athlete_weight sending the update although no token was obtained
update_athlete_weight_anyway(w, weight, oTok, oUpd) ==
    LET t  == wrap_err(obtain_access_token(w, oTok),
                       "Failed to obtain access token for weight update")
        w1 == LibCall(t.w, Call("strava_update_athlete_weight",
                                IF t.ok THEN t.val ELSE NoToken,
                                weight, oUpd.ok, oUpd.status))
    IN  IF oUpd.ok THEN Ok(StatusToString(oUpd.status), w1)
        ELSE Err(<<"API error: Failed to update athlete weight">>, w1)

update_athlete_weight(w, weight, oTok, oUpd) ==
    LET t == wrap_err(obtain_access_token(w, oTok),
                      "Failed to obtain access token for weight update")
    IN  IF ~t.ok THEN t
        ELSE LET w1 == LibCall(t.w, Call("strava_update_athlete_weight", t.val,
                                         weight, oUpd.ok, oUpd.status))
             IN  IF oUpd.ok THEN Ok(StatusToString(oUpd.status), w1)
                 ELSE Err(<<"API error: Failed to update athlete weight">>, w1)

println(w, line) == [w EXCEPT !.out = Append(w.out, line)]

sync_weight_to_strava(w, weight, oTok, oUpd) ==
    IF ~weight.some THEN Err(<<"API error: Weight value is required">>, w)
    ELSE
        LET w1 == println(w, <<"Syncing to Strava...">>)
            u  == wrap_err(update_athlete_weight(w1, weight.v, oTok, oUpd),
                           "Failed to sync weight with Strava")
        IN  IF ~u.ok THEN u
            ELSE Ok(<<>>, println(u.w, <<"Weight updated in Strava to">>
                                       \o weight.v \o <<"kg">>))


----------------------------------------------------------------------------
(* main.rs: the forwarding of the process_cli entry point *)

\* prints, unwraps the weight (a panic on None), calls update_athlete_weight
\* and drops its Result, prints again
sync_strava(w, weight, oTok, oUpd) ==
    LET w1 == println(w, <<"Syncing to Strava...">>)
    IN  IF ~weight.some THEN [panicked |-> TRUE, res |-> Err(<<>>, w1), w |-> w1]
        ELSE LET u == update_athlete_weight(w1, weight.v, oTok, oUpd)
             IN  [panicked |-> FALSE, res |-> u,
                  w |-> println(u.w, <<"Weight updated in Strava to">>
                                       \o weight.v \o <<"kg">>)]

----------------------------------------------------------------------------
(* modules/withings.rs *)

\* withings_get_access_token falling back on the interactive authorization
\* when the refresh fails
withings_get_access_token_fallback(w, o) ==
    IF ~env.WITHINGS_CLIENT_SECRET THEN
        Record("withings_get_access_token", FALSE, FALSE, w,
               Err(<<"Missing client secret",
                     "Configuration error: Missing environment variable">>, w))
    ELSE IF ~env.WITHINGS_CLIENT_ID THEN
        Record("withings_get_access_token", FALSE, FALSE, w,
               Err(<<"Missing client ID",
                     "Configuration error: Missing environment variable">>, w))
    ELSE
        LET w1 == IF w.wfile
                  THEN LibCall(w, Call("withings_refresh_token", NoToken, <<>>, o.ok, 0))
                  ELSE [LibCall(w, Call("withings_get_access_code", NoToken, <<>>, o.ok, 0))
                           EXCEPT !.wfile = o.ok /\ o.wrote]
            w2 == IF w.wfile /\ ~o.ok
                  THEN LibCall(w1, Call("withings_get_access_code", NoToken, <<>>, o.ok, 0))
                  ELSE w1
        IN  Record("withings_get_access_token", TRUE, w.wfile, w,
                   IF o.ok THEN Ok(Token(w), w2)
                   ELSE Err(<<"Configuration error: Failed to obtain access token">>, w2))

withings_get_access_token(w, o) ==
    IF ~env.WITHINGS_CLIENT_SECRET THEN
        Record("withings_get_access_token", FALSE, FALSE, w,
               Err(<<"Missing client secret",
                     "Configuration error: Missing environment variable">>, w))
    ELSE IF ~env.WITHINGS_CLIENT_ID THEN
        Record("withings_get_access_token", FALSE, FALSE, w,
               Err(<<"Missing client ID",
                     "Configuration error: Missing environment variable">>, w))
    ELSE
        LET w1 == IF w.wfile
                  THEN LibCall(w, Call("withings_refresh_token", NoToken, <<>>, o.ok, 0))
                  ELSE [LibCall(w, Call("withings_get_access_code", NoToken, <<>>, o.ok, 0))
                           EXCEPT !.wfile = o.ok /\ o.wrote]
        IN  Record("withings_get_access_token", TRUE, w.wfile, w,
                   IF o.ok THEN Ok(Token(w), w1)
                   ELSE Err(<<"Configuration error: Failed to obtain access token">>, w1))

\* WeightError
WeightOk(v) == [tag |-> "Ok", val |-> v, msg |-> ""]
WeightErr(tag, msg) == [tag |-> tag, val |-> 0, msg |-> msg]
NoWeight == [tag |-> "unset", val |-> 0, msg |-> ""]

\* get_weight_by_date up to the response of the measurement request; an
\* error of a Report is rendered by its outermost message
get_measurements(w, lastupdate, oTok, oMeas) ==
    LET t == withings_get_access_token(w, oTok)
    IN  IF ~t.ok THEN Err(WeightErr("Auth", Head(t.err)), t.w)
        ELSE IF ~env.WITHINGS_CLIENT_ID THEN
            Err(WeightErr("Auth", "Configuration error: Missing environment variable"), t.w)
        ELSE LET w1 == LibCall(t.w, Call("withings_get_measurements", t.val,
                                         lastupdate, oMeas.ok, 0))
             IN  IF oMeas.ok THEN Ok(oMeas.measuregrps, w1)
                 ELSE Err(WeightErr("Measurement", "request failed"), w1)

\* first_measure taking the last measure of the first group
first_measure_last(measuregrps) ==
    IF measuregrps = <<>> THEN WeightErr("NoMeasurements", "No measurements available")
    ELSE IF measuregrps[1] = <<>> THEN WeightErr("NoMeasurements", "No measurements available")
    ELSE WeightOk(measuregrps[1][Len(measuregrps[1])])

\* get_weight_by_date from the response on: the first measure of the first
\* group, as f64
first_measure(measuregrps) ==
    IF measuregrps = <<>> THEN WeightErr("NoMeasurements", "No measurements available")
    ELSE IF measuregrps[1] = <<>> THEN WeightErr("NoMeasurements", "No measurements available")
    ELSE WeightOk(measuregrps[1][1])

NoResponse == [live |-> FALSE, measuregrps |-> <<>>]
NoSync == [called |-> FALSE, ok |-> FALSE, err |-> <<>>]
Synced(r) == [called |-> TRUE, ok |-> r.ok, err |-> r.err]

----------------------------------------------------------------------------
(* The command line *)

WithFlags(entry, cmd, f) ==
    [entry |-> entry, cmd |-> cmd, log |-> f.log, has_last |-> f.has_last,
     last_weight |-> f.last_weight, strava_sync |-> f.strava_sync,
     register |-> f.register, get_athlete |-> f.get_athlete,
     get_stats |-> f.get_stats]

NoFlags == [log |-> FALSE, has_last |-> FALSE, last_weight |-> 0,
            strava_sync |-> FALSE, register |-> FALSE, get_athlete |-> FALSE,
            get_stats |-> "None"]

\* cli.rs: Cli, Commands
CliArgs ==
    {WithFlags("cli", "withings", [NoFlags EXCEPT !.log = l, !.has_last = TRUE, !.last_weight = d, !.strava_sync = s]) :
            l \in BOOLEAN, d \in Days, s \in BOOLEAN}
    \cup
    {WithFlags("cli", "strava", [NoFlags EXCEPT !.log = l, !.register = r, !.get_athlete = a, !.get_stats = g]) :
            l \in BOOLEAN, r \in BOOLEAN, a \in BOOLEAN,
            g \in StatsOptions \cup {"None"}}
    \cup
    {WithFlags("cli", "none", [NoFlags EXCEPT !.log = TRUE])}

\* main.rs: what process_cli reads of the matches
ProcessCliArgs ==
    {WithFlags("process_cli", "withings", [NoFlags EXCEPT !.has_last = TRUE, !.last_weight = d, !.strava_sync = s]) :
            d \in Days, s \in BOOLEAN}
    \cup
    {WithFlags("process_cli", "withings", [NoFlags EXCEPT !.strava_sync = s]) : s \in BOOLEAN}
    \cup
    {WithFlags("process_cli", "none", NoFlags)}

Environments ==
    [STRAVA_CLIENT_ID : BOOLEAN, STRAVA_CLIENT_SECRET : BOOLEAN,
     WITHINGS_CLIENT_ID : BOOLEAN, WITHINGS_CLIENT_SECRET : BOOLEAN]

Init ==
    /\ args \in CliArgs \cup ProcessCliArgs
    /\ env \in Environments
    /\ sfile \in BOOLEAN
    /\ wfile \in BOOLEAN
    /\ pc = "start"
    /\ logger = FALSE
    /\ calls = <<>>
    /\ acqs = <<>>
    /\ out = <<>>
    /\ errs = <<>>
    /\ exit_status = -1
    /\ measurements = NoResponse
    /\ weightRes = NoWeight
    /\ weight_in_kgs = None
    /\ syncRes = NoSync

SetWorld(w) ==
    /\ calls' = w.calls
    /\ acqs' = w.acqs
    /\ sfile' = w.sfile
    /\ wfile' = w.wfile
    /\ out' = w.out

\* process::exit(code), or a panic (code 101), after writing msg to stderr
Exit(code, msg) ==
    /\ pc' = "exited"
    /\ exit_status' = code
    /\ errs' = Append(errs, msg)

Goto(l) ==
    /\ pc' = l
    /\ UNCHANGED <<exit_status, errs>>


----------------------------------------------------------------------------
(* cli.rs: cli() *)

\* lines 62-66: the arguments are parsed; the logger is set up on --log
CliLogger ==
    /\ pc = "start"
    /\ args.entry = "cli"
    /\ logger' = args.log
    /\ Goto("match")
    /\ UNCHANGED <<args, env, sfile, wfile, calls, acqs, out, measurements,
                   weightRes, weight_in_kgs, syncRes>>

\* line 73: the withings arm calls get_and_format_weight(last_weight)
CliWithings ==
    /\ pc = "match"
    /\ args.cmd = "withings"
    /\ Goto("get_weight")
    /\ UNCHANGED <<args, env, sfile, wfile, logger, calls, acqs, out,
                   measurements, weightRes, weight_in_kgs, syncRes>>

\* lines 143-145
CliNoCommand ==
    /\ pc = "match"
    /\ args.cmd = "none"
    /\ out' = Append(out, <<"No command specified">>)
    /\ Goto("return")
    /\ UNCHANGED <<args, env, sfile, wfile, logger, calls, acqs, measurements,
                   weightRes, weight_in_kgs, syncRes>>

\* lines 74-79: back from get_and_format_weight
CliWithingsSync ==
    /\ pc = "fetched"
    /\ args.entry = "cli"
    /\ LET w1 == println(println(World, <<"weight:">> \o weight_in_kgs.v),
                         <<"strava_sync:", args.strava_sync>>)
       IN  IF ~args.strava_sync
           THEN /\ SetWorld(w1)
                /\ Goto("return")
                /\ UNCHANGED syncRes
           ELSE \E oTok \in TokenOutcomes, oUpd \in UpdateOutcomes :
                  LET r == sync_weight_to_strava(w1, weight_in_kgs, oTok, oUpd)
                  IN  /\ SetWorld(r.w)
                      /\ syncRes' = Synced(r)
                      /\ IF r.ok THEN Goto("return")
                         ELSE Exit(101, <<"TODO: panic message">> \o r.err)
    /\ UNCHANGED <<args, env, logger, measurements, weightRes, weight_in_kgs>>

\* lines 85-87
StravaRegister ==
    /\ pc = "match"
    /\ args.cmd = "strava"
    /\ IF ~args.register
       THEN /\ Goto("get_athlete")
            /\ UNCHANGED <<sfile, wfile, calls, acqs, out>>
       ELSE \E o \in TokenOutcomes :
              LET r == auth_strava(World, o)
              IN  /\ SetWorld(r.w)
                  /\ IF r.ok THEN Goto("get_athlete")
                     ELSE Exit(101, <<"called unwrap on Err">> \o r.err)
    /\ UNCHANGED <<args, env, logger, measurements, weightRes, weight_in_kgs,
                   syncRes>>

\* StravaGetAthlete asking again when the athlete cannot be read
StravaGetAthlete_retry ==
    /\ pc = "get_athlete"
    /\ IF ~args.get_athlete
       THEN /\ Goto("get_stats")
            /\ UNCHANGED <<sfile, wfile, calls, acqs, out>>
       ELSE \E oTok \in TokenOutcomes, oAth \in AthleteOutcomes :
              LET r == get_authenticated_athlete(World, oTok, oAth)
              IN  IF r.ok
                  THEN /\ SetWorld(println(r.w, <<"athlete", r.val>>))
                       /\ Goto("get_stats")
                  ELSE /\ SetWorld(r.w)
                       /\ Goto("get_athlete")
    /\ UNCHANGED <<args, env, logger, measurements, weightRes, weight_in_kgs,
                   syncRes>>

\* lines 88-92
StravaGetAthlete ==
    /\ pc = "get_athlete"
    /\ IF ~args.get_athlete
       THEN /\ Goto("get_stats")
            /\ UNCHANGED <<sfile, wfile, calls, acqs, out>>
       ELSE \E oTok \in TokenOutcomes, oAth \in AthleteOutcomes :
              LET r == get_authenticated_athlete(World, oTok, oAth)
              IN  IF r.ok
                  THEN /\ SetWorld(println(r.w, <<"athlete", r.val>>))
                       /\ Goto("get_stats")
                  ELSE /\ SetWorld(r.w)
                       /\ Exit(101, <<"called unwrap on Err">> \o r.err)
    /\ UNCHANGED <<args, env, logger, measurements, weightRes, weight_in_kgs,
                   syncRes>>

\* lines 93-141: every arm reads the stats once and prints its part of them
StravaGetStats ==
    /\ pc = "get_stats"
    /\ IF args.get_stats = "None"
       THEN /\ Goto("return")
            /\ UNCHANGED <<sfile, wfile, calls, acqs, out>>
       ELSE \E oTok1 \in TokenOutcomes, oTok2 \in TokenOutcomes,
               oAth \in AthleteOutcomes, oStats \in StatsOutcomes :
              LET r == get_athlete_stats(World, oTok1, oTok2, oAth, oStats)
              IN  IF r.ok
                  THEN /\ SetWorld(println(r.w, <<r.val, args.get_stats>>))
                       /\ Goto("return")
                  ELSE /\ SetWorld(r.w)
                       /\ Exit(101, <<"called unwrap on Err">> \o r.err)
    /\ UNCHANGED <<args, env, logger, measurements, weightRes, weight_in_kgs,
                   syncRes>>

----------------------------------------------------------------------------
(* main.rs: process_cli() *)

\* lines 12-16 and 23: the match on the subcommand
ProcessCli ==
    /\ pc = "start"
    /\ args.entry = "process_cli"
    /\ IF args.cmd # "withings"
       THEN /\ Exit(101, <<"internal error: entered unreachable code">>)
            /\ UNCHANGED out
       ELSE IF ~args.has_last
       THEN /\ Goto("return")
            /\ UNCHANGED out
       ELSE /\ out' = Append(out, <<"Getting weight for the day from",
                                    args.last_weight>>)
            /\ Goto("get_weight")
    /\ UNCHANGED <<args, env, sfile, wfile, logger, calls, acqs, measurements,
                   weightRes, weight_in_kgs, syncRes>>

\* lines 18-20: back from get_and_format_weight
ProcessCliSync ==
    /\ pc = "fetched"
    /\ args.entry = "process_cli"
    /\ IF ~args.strava_sync
       THEN /\ Goto("return")
            /\ UNCHANGED <<sfile, wfile, calls, acqs, out, syncRes>>
       ELSE \E oTok \in TokenOutcomes, oUpd \in UpdateOutcomes :
              LET r == sync_strava(World, weight_in_kgs, oTok, oUpd)
              IN  /\ SetWorld(r.w)
                  /\ syncRes' = Synced(r.res)
                  /\ IF r.panicked
                     THEN Exit(101, <<"called unwrap on None">>)
                     ELSE Goto("return")
    /\ UNCHANGED <<args, env, logger, measurements, weightRes, weight_in_kgs>>

----------------------------------------------------------------------------
(* utils.rs / main.rs: get_and_format_weight, around get_weight_by_date *)

\* withings.rs lines 143-163: the token, the client id, the request
GetWeightRequest ==
    /\ pc = "get_weight"
    /\ \E oTok \in TokenOutcomes, oMeas \in MeasureOutcomes :
          LET r == get_measurements(World,
                                    get_day_before_timestamp(args.last_weight),
                                    oTok, oMeas)
          IN  /\ SetWorld(r.w)
              /\ IF r.ok
                 THEN /\ measurements' = [live |-> TRUE, measuregrps |-> r.val]
                      /\ UNCHANGED weightRes
                      /\ Goto("first_measure")
                 ELSE /\ weightRes' = r.err
                      /\ UNCHANGED measurements
                      /\ Goto("format")
    /\ UNCHANGED <<args, env, logger, weight_in_kgs, syncRes>>

\* withings.rs lines 165-176: the response is read
GetWeightFirstMeasure ==
    /\ pc = "first_measure"
    /\ weightRes' = first_measure(measurements.measuregrps)
    /\ Goto("format")
    /\ UNCHANGED <<args, env, sfile, wfile, logger, calls, acqs, out,
                   measurements, weight_in_kgs, syncRes>>

\* utils.rs lines 17-23: get_weight_by_date returns, dropping the response,
\* and its result is matched
FormatWeight ==
    /\ pc = "format"
    /\ measurements' = NoResponse
    /\ IF weightRes.tag = "Ok"
       THEN /\ weight_in_kgs' = Some(KgToString(weightRes.val))
            /\ Goto("fetched")
       ELSE /\ UNCHANGED weight_in_kgs
            /\ Exit(1, <<"Failed to get weight for the last 24 hours",
                         weightRes.tag, weightRes.msg>>)
    /\ UNCHANGED <<args, env, sfile, wfile, logger, calls, acqs, out,
                   weightRes, syncRes>>

\* the entry point returns and main ends
Return ==
    /\ pc = "return"
    /\ pc' = "exited"
    /\ exit_status' = 0
    /\ UNCHANGED <<args, env, sfile, wfile, logger, calls, acqs, out, errs,
                   measurements, weightRes, weight_in_kgs, syncRes>>

Next ==
    \/ CliLogger
    \/ CliWithings
    \/ CliNoCommand
    \/ CliWithingsSync
    \/ StravaRegister
    \/ StravaGetAthlete
    \/ StravaGetStats
    \/ ProcessCli
    \/ ProcessCliSync
    \/ GetWeightRequest
    \/ GetWeightFirstMeasure
    \/ FormatWeight
    \/ Return

Spec == Init /\ [][Next]_vars

\* the process is scheduled until it exits
FairSpec == Spec /\ WF_vars(Next)


----------------------------------------------------------------------------
(* Vocabulary of the properties *)

StravaTokenOps == {"strava_get_authorization", "strava_get_refresh_token"}
WithingsTokenOps == {"withings_refresh_token", "withings_get_access_code"}
TokenOps == StravaTokenOps \cup WithingsTokenOps
StravaOps == StravaTokenOps \cup {"strava_get_athlete", "strava_get_athlete_stats",
                                  "strava_update_athlete_weight"}

\* how many library calls of the kinds in ops the run has made
Count(ops) == Cardinality({i \in DOMAIN calls : calls[i].op \in ops})

\* a call that failed: the library returned an error, or the response to the
\* weight update carries a status outside 2xx
Failed(c) ==
    \/ ~c.ok
    \/ c.op = "strava_update_athlete_weight" /\ c.status \notin 200..299

ConfigErrors == {"Configuration error: Missing client ID",
                 "Configuration error: Missing client secret",
                 "Configuration error: Missing environment variable"}

\* the credentials an acquisition function needs are all set
HasCredentials(fn) ==
    IF fn = "withings_get_access_token"
    THEN env.WITHINGS_CLIENT_ID /\ env.WITHINGS_CLIENT_SECRET
    ELSE env.STRAVA_CLIENT_ID /\ env.STRAVA_CLIENT_SECRET

Exited == pc = "exited"

----------------------------------------------------------------------------
(* C1: each run makes at most one token acquisition or refresh, at most    *)
(* one measurement fetch and at most one weight-update or stats-read call. *)
C1_AtMostOneOfEach ==
    /\ Count(TokenOps) <= 1
    /\ Count({"withings_get_measurements"}) <= 1
    /\ Count({"strava_update_athlete_weight", "strava_get_athlete_stats"}) <= 1

(* C1, as the code has it: a run makes at most one Withings token call, at *)
(* most one measurement fetch and at most one weight-update or stats-read  *)
(* call, but up to four token calls in all: two in a withings run (one per *)
(* service), four in a strava run (one for --register, one for            *)
(* --get-athlete, two for --get-stats).                                    *)
C1_TokenCallsBounded ==
    /\ Count(WithingsTokenOps) <= 1
    /\ Count(TokenOps) <= (IF args.cmd = "strava" THEN 4 ELSE 2)
    /\ Count({"withings_get_measurements"}) <= 1
    /\ Count({"strava_update_athlete_weight", "strava_get_athlete_stats"}) <= 1

C1_Witness ==
    /\ Exited
    /\ exit_status = 0
    /\ Count(TokenOps) = 4
    /\ Count({"strava_get_athlete_stats"}) = 1

(* C2: a run that meets a missing credential variable, a failed call or an *)
(* empty measurement list ends with a non-zero exit status and an error    *)
(* on standard error.                                                      *)
MetError ==
    \/ \E k \in DOMAIN acqs : ~acqs[k].ok /\ ~HasCredentials(acqs[k].fn)
    \/ \E i \in DOMAIN calls : Failed(calls[i])
    \/ weightRes.tag = "NoMeasurements"

C2_ErrorsExitNonZero ==
    (Exited /\ MetError) => (exit_status # 0 /\ errs # <<>>)

(* C3: once a library call has failed, the run makes no further library    *)
(* call: a failed call is the last call of the run.                        *)
C3_NoCallAfterFailure ==
    \A i \in DOMAIN calls : Failed(calls[i]) => i = Len(calls)

C3_Witness ==
    /\ Exited
    /\ Len(calls) >= 3
    /\ ~calls[Len(calls)].ok

(* C4: an access-token acquisition that has its credentials makes exactly  *)
(* one library call: the refresh call if the config file existed when it   *)
(* looked, the authorization call if it did not.                           *)
RefreshOp(fn) ==
    IF fn = "withings_get_access_token" THEN "withings_refresh_token"
    ELSE "strava_get_refresh_token"
AuthorizeOp(fn) ==
    IF fn = "withings_get_access_token" THEN "withings_get_access_code"
    ELSE "strava_get_authorization"

C4_RefreshIffFileExists ==
    \A k \in DOMAIN acqs :
        LET a == acqs[k]
        IN  (a.fn # "auth_strava" /\ HasCredentials(a.fn)) =>
                /\ a.checked
                /\ a.to = a.from + 1
                /\ calls[a.to].op = (IF a.file THEN RefreshOp(a.fn)
                                     ELSE AuthorizeOp(a.fn))
                /\ a.ok = calls[a.to].ok

\* one run in which an acquisition authorized and failed, and one in which
\* the first acquisition authorized and the next one refreshed
C4_Witness ==
    /\ Len(acqs) >= 2
    /\ acqs[1].fn = "strava_get_access_token"
    /\ acqs[2].fn = "strava_get_access_token"
    /\ calls[acqs[1].to].op = "strava_get_authorization"
    /\ calls[acqs[2].to].op = "strava_get_refresh_token"
    /\ ~acqs[2].ok

(* C5: with a credential variable unset, auth_strava and both              *)
(* get_access_token functions return a configuration error and make no     *)
(* library call; no call to that service is made with it unset.            *)
C5_MissingCredentialNoCall ==
    /\ \A k \in DOMAIN acqs :
          LET a == acqs[k]
          IN  ~HasCredentials(a.fn) =>
                  /\ ~a.ok
                  /\ a.to = a.from
                  /\ \E j \in DOMAIN a.err : a.err[j] \in ConfigErrors
    /\ ~HasCredentials("strava_get_access_token") => Count(StravaOps) = 0
    /\ ~HasCredentials("withings_get_access_token") =>
          Count(WithingsTokenOps \cup {"withings_get_measurements"}) = 0

C5_Witness ==
    /\ Exited
    /\ \E k \in DOMAIN acqs :
          /\ acqs[k].fn = "strava_get_access_token"
          /\ ~HasCredentials(acqs[k].fn)
          /\ acqs[k].from >= 2


(* C6: get_weight_by_date returns the value of the first measure of the    *)
(* first group of the response; NoMeasurements exactly when there is no    *)
(* group or the first group has no measure; an Auth error when the token   *)
(* or the client id cannot be had; a Measurement error when the request    *)
(* fails.                                                                  *)
C6_FirstMeasureOrError ==
    pc = "format" =>
        LET g    == measurements.measuregrps
            a    == acqs[Len(acqs)]
            none == IF g = <<>> THEN TRUE ELSE g[1] = <<>>
        IN  /\ a.fn = "withings_get_access_token"
            /\ (weightRes.tag = "Auth") <=> ~a.ok
            /\ (weightRes.tag = "Measurement") <=>
                   (a.ok /\ ~calls[Len(calls)].ok
                         /\ calls[Len(calls)].op = "withings_get_measurements")
            /\ measurements.live <=> weightRes.tag \in {"Ok", "NoMeasurements"}
            /\ measurements.live =>
                   /\ (weightRes.tag = "NoMeasurements") <=> none
                   /\ ~none => weightRes = WeightOk(g[1][1])

C6_Witness ==
    /\ pc = "format"
    /\ measurements.live
    /\ Len(measurements.measuregrps) = 2
    /\ Len(measurements.measuregrps[1]) = 2
    /\ Len(measurements.measuregrps[2]) = 2
    /\ weightRes.tag = "Ok"
    /\ weightRes.val = measurements.measuregrps[1][1]

(* C7: get_and_format_weight returns None when the retrieval fails, and    *)
(* the kilograms as a string otherwise.                                    *)
C7_NoneOnError ==
    (weightRes.tag \notin {"unset"} /\ pc \notin {"first_measure", "format"}) =>
        IF weightRes.tag = "Ok"
        THEN weight_in_kgs = Some(KgToString(weightRes.val))
        ELSE weight_in_kgs = None /\ exit_status # 1

(* C8: sync_weight_to_strava returns an error when the weight is None,     *)
(* when authentication fails or when the weight update fails; with None    *)
(* it makes no token acquisition and no update call; whenever it returns   *)
(* an error the 'Weight updated in Strava' line is not printed.            *)
Updated == <<"Weight updated in Strava to">> \o weight_in_kgs.v \o <<"kg">>
UpdatePrinted == \E i \in DOMAIN out : out[i] = Updated

C8_SyncErrors ==
    (args.entry = "cli" /\ syncRes.called) =>
        LET a == acqs[Len(acqs)]
        IN  /\ ~weight_in_kgs.some =>
                  (~syncRes.ok /\ Count(StravaOps) = 0 /\ Len(acqs) = 1)
            /\ (weight_in_kgs.some /\ ~a.ok) => ~syncRes.ok
            /\ (\E i \in DOMAIN calls :
                   /\ calls[i].op = "strava_update_athlete_weight"
                   /\ Failed(calls[i])) => ~syncRes.ok
            /\ ~syncRes.ok => ~UpdatePrinted

(* C9: in a withings run a Strava call is made only with the strava-sync   *)
(* flag set and after the measurement fetch of the run has succeeded; the  *)
(* weight sent is the fetched grams divided by 1000; without the flag no   *)
(* Strava call is made; a failed fetch ends the run with status 1 before   *)
(* any Strava call.                                                        *)
DigitValue(c) == CHOOSE d \in 0..9 : Digit(d) = c

RECURSIVE StringToNat(_)
StringToNat(s) ==
    IF s = <<>> THEN 0
    ELSE 10 * StringToNat(SubSeq(s, 1, Len(s) - 1)) + DigitValue(s[Len(s)])

\* the thousandths a decimal text of at most three decimals stands for
Thousandths(s) ==
    LET dots == {i \in DOMAIN s : s[i] = "."}
        dot  == IF dots = {} THEN Len(s) + 1 ELSE CHOOSE i \in dots : TRUE
        frac == SubSeq(s, dot + 1, Len(s))
        pad  == [i \in 1..3 |-> IF i <= Len(frac) THEN frac[i] ELSE "0"]
    IN  1000 * StringToNat(SubSeq(s, 1, dot - 1)) + StringToNat(pad)

FetchFailed == weightRes.tag \in {"Auth", "Measurement", "NoMeasurements"}

PcRank(l) ==
    CASE l = "start" -> 0
      [] l = "match" -> 1
      [] l = "get_weight" -> 2
      [] l = "first_measure" -> 3
      [] l = "format" -> 4
      [] l = "fetched" -> 5
      [] l = "get_athlete" -> 6
      [] l = "get_stats" -> 7
      [] l = "return" -> 8
      [] l = "exited" -> 9

C10_Terminates ==
    /\ [](Exited \/ ENABLED Next)
    /\ [][PcRank(pc') > PcRank(pc)]_vars
    /\ [](Exited <=> exit_status \in {0, 1, 101})

C10_Witness ==
    /\ Exited
    /\ exit_status = 0
    /\ Len(calls) = 7


(* C11: get_athlete_stats asks for the stats only after it has obtained an *)
(* access token and the athlete's profile, and for the id of that athlete; *)
(* when the token or the athlete cannot be had it returns an error and no  *)
(* stats request is made.                                                  *)
StatsRequested == \E i \in DOMAIN calls : calls[i].op = "strava_get_athlete_stats"

C11_StatsAfterTokenAndAthlete ==
    /\ \A i \in DOMAIN calls :
          calls[i].op = "strava_get_athlete_stats" =>
              /\ i >= 4
              /\ calls[i - 1].op = "strava_get_athlete"
              /\ calls[i - 1].ok
              /\ calls[i - 1].id \in AthleteIds
              /\ StringToNat(calls[i].arg) = calls[i - 1].id
              /\ calls[i - 2].op \in StravaTokenOps
              /\ calls[i - 2].ok
              /\ calls[i - 1].tok # calls[i].tok
              /\ \E k \in DOMAIN acqs :
                    /\ acqs[k].ok
                    /\ acqs[k].to = i - 3
                    /\ calls[i].tok = <<"token", k>>
    /\ (Exited /\ args.get_stats # "None" /\ ~StatsRequested) =>
          exit_status = 101
    /\ (Exited /\ StatsRequested /\ calls[Len(calls)].ok) => exit_status = 0

\* --get-athlete and --get-stats in one run, the two lookups giving
\* different ids: the stats are asked for the id of the later one
C11_Witness ==
    /\ Exited
    /\ exit_status = 0
    /\ Len(calls) = 6
    /\ calls[2].op = "strava_get_athlete"
    /\ calls[2].id = 7
    /\ calls[5].id = 42
    /\ calls[6].op = "strava_get_athlete_stats"
    /\ calls[6].arg = <<"4", "2">>


(* C12: 'Weight updated in Strava to <w> kg' is printed only in runs in    *)
(* which the update request came back with a success status; a response    *)
(* with an error status leads neither to that line nor to exit status 0.   *)
Accepted(c) ==
    c.op = "strava_update_athlete_weight" /\ c.ok /\ c.status \in 200..299
Rejected(c) ==
    c.op = "strava_update_athlete_weight" /\ c.ok /\ c.status \notin 200..299

C12_UpdatedOnlyWhenAccepted ==
    /\ UpdatePrinted => \E i \in DOMAIN calls : Accepted(calls[i])
    /\ (\E i \in DOMAIN calls : Rejected(calls[i])) =>
          (~UpdatePrinted /\ exit_status # 0)

====
